---------------------------- MODULE Spec2Model ----------------------------
(***************************************************************************)
(* Model of the pooled WebAssembly executor of wasm-severless-from-scratch *)
(* (src/unnamed/part_001 lines 469-725 and src/worker.js lines 1-39):      *)
(* WasmThreadExecutor with its slot table, task queue, watchdog timers and *)
(* SharedBufferCache, the worker threads it talks to, and the statistics   *)
(* callback of Platform.exec.                                              *)
(*                                                                         *)
(* One action of the model is one macrotask of the Node.js event loop      *)
(* together with the microtasks it schedules: an execute call, the         *)
(* delivery of one worker event (message, error, exit), the firing of one  *)
(* watchdog timer.  _loadWasmBuffer reads the file synchronously, so the   *)
(* await in _work is resumed in the same macrotask.                        *)
(*                                                                         *)
(* Durations are abstracted: a watchdog may fire at any moment after it    *)
(* was armed and before it is cleared, and a worker takes any time to run  *)
(* a module.  The clock `now` is read where the code reads Date.now().     *)
(***************************************************************************)
EXTENDS Integers, Sequences, FiniteSets, TLC

VARIABLES
    poolSize,    \* constructor argument of WasmThreadExecutor
    threads,     \* this.threads: slot index -> thread id, 0 for an empty slot
    tasks,       \* this.tasks: sequence of task ids, pushed at the end
    task,        \* every task ever submitted, by id (closure state of execute/_work)
    worker,      \* every thread object ever created, by id, with its Worker
    map,         \* this.cache.map: key -> entry or NoEntry
    now,         \* Date.now()
    unhandled,   \* a promise of _work was rejected with nobody handling it
    halted,      \* the process was ended by the unhandled rejection
    gets,        \* the calls of SharedBufferCache.get made by a client of the cache
    nextSweep,   \* when the interval timer of the cache calls _evict next
    registry,    \* Platform.registry: module name -> module object, 0 if absent
    nmodules,    \* number of module objects created by Platform.register
    reply,       \* what the last controller call of the HTTP server came to
    micro,       \* src/index.js pool: the _work calls whose awaited promise has resolved
    pipelined,   \* src/index.js pool: the turn in progress is one of request handling
    busy,        \* src/index.js worker per task: this.busy
    removed      \* the module files deleted from PATH_TO_MODULES since the start

execVars == <<poolSize, threads, tasks, task, worker, unhandled, halted>>
cacheVars == <<gets, nextSweep>>
platformVars == <<registry, nmodules, reply, removed>>
variantVars == <<micro, pipelined, busy>>

vars == <<poolSize, threads, tasks, task, worker, map, now, unhandled, halted,
          gets, nextSweep, registry, nmodules, reply, micro, pipelined, busy,
          removed>>

-----------------------------------------------------------------------------
(* Bounds of the model *)

MaxPoolSize == 2
MaxTasks == 3
MaxGets == 3             \* get calls made by the client of the cache
MaxTicks == 5            \* the clock stops after MaxTicks steps of ClockStep
MaxRegistrations == 2    \* successful calls of Platform.register
MaxRequests == 2         \* requests of exec for a registered module answered over HTTP

(* Program constants *)

CACHE_TTL_MS == 1000
EXECUTION_TIMEOUT_MS == 5000

\* the clock advances in steps of half the TTL
ClockStep == CACHE_TTL_MS \div 2

-----------------------------------------------------------------------------
(* Inputs *)

Files == {"sum", "sleep", "trap"}

\* execute calls whose module returns: README's sum with two parameter
\* lists, and sleep.wat
ReturningInputs ==
    { [wasmFile |-> "sum", params |-> <<5, 2>>],
      [wasmFile |-> "sum", params |-> <<1, 1>>],
      [wasmFile |-> "sleep", params |-> <<>>] }

\* execute calls of the full specification: a module that returns a number,
\* one that returns nothing, one whose entry function traps
Inputs ==
    { [wasmFile |-> "sum", params |-> <<5, 2>>],
      [wasmFile |-> "sleep", params |-> <<>>],
      [wasmFile |-> "trap", params |-> <<>>] }

\* the keys the client of the cache asks for
CacheKeys == {"sum", "sleep"}

\* names used in requests: the modules plus one with no file on disk
ModuleNames == Files \cup {"nomodule"}

\* what a controller call came to: the status the HTTP server answers with
\* (0 while the promise of exec is pending) and the text, with the numbers
\* of the statistics
Reply(controller, name, status, body, time, counter) ==
    [controller |-> controller, name |-> name, status |-> status,
     body |-> body, time |-> time, counter |-> counter]

NoReply == Reply("none", "none", 0, "none", 0, 0)

NoEntry == [value |-> "none", timestamp |-> -1]

\* fs.readFileSync(wasmFile): the bytes of a module are named by its file
ReadFile(wasmFile) == wasmFile

Val(kind, v) == [kind |-> kind, v |-> v]

\* wasm[START_FUNCTION](...params) for the modules of the repository: sum
\* adds its two parameters, sleep loops and returns nothing, trap traps.
StartFunction(wasmBuffer, params) ==
    CASE wasmBuffer = "sum" -> Val("value", params[1] + params[2])
      [] wasmBuffer = "sleep" -> Val("undefined", 0)
      [] OTHER -> Val("throw", 0)

\* execModule without its try/catch: the thrown error leaves the function
ExecModuleNoCatch(data) == StartFunction(data.wasmBuffer, data.params)

\* execModule: a thrown error is caught and returned as the result
ExecModule(data) ==
    LET r == StartFunction(data.wasmBuffer, data.params)
    IN  IF r.kind = "throw" THEN Val("wasmerror", 0) ELSE r


-----------------------------------------------------------------------------
(* The state as one record, so that a handler and the calls it makes       *)
(* (callback, _triggerWork, _findFreeWorker, _work, cache.get) compose.    *)

State ==
    [threads |-> threads, tasks |-> tasks, task |-> task, worker |-> worker,
     map |-> map, unhandled |-> unhandled, halted |-> halted]

Commit(S) ==
    /\ threads' = S.threads
    /\ tasks' = S.tasks
    /\ task' = S.task
    /\ worker' = S.worker
    /\ map' = S.map
    /\ unhandled' = S.unhandled
    /\ halted' = S.halted

\* what readFileSync does for a cache miss: the bytes, an exception that is
\* only reported (unhandled-rejection warning), or one that ends the process
LoadOutcomes == {"ok", "fail", "halt"}

Event(type, arg) == [type |-> type, arg |-> arg]

-----------------------------------------------------------------------------
(* Worker threads (worker_threads.Worker running src/worker.js) *)

\* _createWorker: a thread object with no-op handlers around a new Worker
NewThread(index) ==
    [index |-> index, busy |-> FALSE, handler |-> 0,
     state |-> "alive", inbox |-> <<>>, events |-> <<>>]

CreateWorker(S, index) ==
    [S EXCEPT !.worker = Append(@, NewThread(index))]

\* worker.postMessage(data): dropped once the worker has exited
PostMessage(S, w, data) ==
    IF S.worker[w].state = "alive"
    THEN [S EXCEPT !.worker[w].inbox = Append(@, data)]
    ELSE S

\* worker.terminate(): the worker stops and its exit event (code 1) follows
\* whatever it had already posted; no effect on a worker that has exited
Terminate(S, w) ==
    IF S.worker[w].state = "alive"
    THEN [S EXCEPT !.worker[w].state = "dead",
                   !.worker[w].inbox = <<>>,
                   !.worker[w].events = Append(@, Event("exit", Val("code", 1)))]
    ELSE S

-----------------------------------------------------------------------------
(* SharedBufferCache.get *)

CacheGet(S, key, load) ==
    IF S.map[key] # NoEntry
    THEN [S |-> [S EXCEPT !.map[key].timestamp = now],
          ok |-> TRUE, value |-> S.map[key].value]
    ELSE IF load = "ok"
         THEN [S |-> [S EXCEPT !.map[key] =
                         [value |-> ReadFile(key), timestamp |-> now]],
               ok |-> TRUE, value |-> ReadFile(key)]
         ELSE [S |-> S, ok |-> FALSE, value |-> "none"]

-----------------------------------------------------------------------------
(* WasmThreadExecutor *)

Slot(S, i) == IF i \in DOMAIN S.threads THEN S.threads[i] ELSE 0

SetSlot(f, i, v) == [j \in DOMAIN f \cup {i} |-> IF j = i THEN v ELSE f[j]]

\* the loop of _findFreeWorker running one index too far (i <= length)
LoopIndexesOneTooFar(S) == 0 .. Cardinality(DOMAIN S.threads)

\* the indexes the loop of _findFreeWorker visits: i < this.threads.length
LoopIndexes(S) == 0 .. (Cardinality(DOMAIN S.threads) - 1)

SetMin(s) == CHOOSE x \in s : \A y \in s : x <= y

\* _findFreeWorker without its test of thread.busy
FindFreeWorkerIgnoresBusy(S) ==
    LET i == 0
    IN  IF Slot(S, i) = 0
        THEN LET S1 == CreateWorker(S, i)
                 id == Len(S1.worker)
             IN  [S |-> [S1 EXCEPT !.threads = SetSlot(@, i, id)],
                  thread |-> id]
        ELSE [S |-> S, thread |-> Slot(S, i)]

\* _findFreeWorker creating a worker also in a slot whose thread is idle
FindFreeWorkerNeverReuses(S) ==
    LET free == {i \in LoopIndexes(S) :
                    Slot(S, i) = 0 \/ ~S.worker[Slot(S, i)].busy}
    IN  IF free = {}
        THEN [S |-> S, thread |-> 0]
        ELSE LET i == SetMin(free)
                 S1 == CreateWorker(S, i)
                 id == Len(S1.worker)
             IN  [S |-> [S1 EXCEPT !.threads = SetSlot(@, i, id)],
                  thread |-> id]

\* _findFreeWorker: the first slot that is empty (a worker is created in it)
\* or holds a thread that is not busy
FindFreeWorker(S) ==
    LET free == {i \in LoopIndexes(S) :
                    Slot(S, i) = 0 \/ ~S.worker[Slot(S, i)].busy}
    IN  IF free = {}
        THEN [S |-> S, thread |-> 0]
        ELSE LET i == SetMin(free)
             IN  IF Slot(S, i) = 0
                 THEN LET S1 == CreateWorker(S, i)
                          id == Len(S1.worker)
                      IN  [S |-> [S1 EXCEPT !.threads = SetSlot(@, i, id)],
                           thread |-> id]
                 ELSE [S |-> S, thread |-> Slot(S, i)]

\* _work leaving the handlers of a thread that already has some
WorkKeepsHandlers(S, t, w, load) ==
    LET S1 == [S EXCEPT !.task[t].time_start = now,
                        !.task[t].thread = w,
                        !.task[t].timeoutReached = FALSE,
                        !.task[t].timer = "armed",
                        !.worker[w].busy = TRUE,
                        !.worker[w].handler = IF @ = 0 THEN t ELSE @]
        g == CacheGet(S1, S.task[t].wasmFile, load)
    IN  IF g.ok
        THEN PostMessage(g.S, w, [wasmBuffer |-> g.value,
                                  params |-> S.task[t].params])
        ELSE [g.S EXCEPT !.task[t].loadFailed = TRUE,
                         !.unhandled = TRUE,
                         !.halted = (load = "halt")]

\* _work up to and including the continuation after `await this.cache.get`
Work(S, t, w, load) ==
    LET S1 == [S EXCEPT !.task[t].time_start = now,
                        !.task[t].thread = w,
                        !.task[t].timeoutReached = FALSE,
                        !.task[t].timer = "armed",
                        !.worker[w].busy = TRUE,
                        !.worker[w].handler = t]
        g == CacheGet(S1, S.task[t].wasmFile, load)
    IN  IF g.ok
        THEN PostMessage(g.S, w, [wasmBuffer |-> g.value,
                                  params |-> S.task[t].params])
        ELSE [g.S EXCEPT !.task[t].loadFailed = TRUE,
                         !.unhandled = TRUE,
                         !.halted = (load = "halt")]

\* this.tasks.shift() in place of pop()
PopIndexShift(q) == 1

\* this.tasks.pop()
PopIndex(q) == Len(q)

\* this.tasks emptied by the dispatch (this.tasks.length = 0)
PoppedDropsAll(q) == <<>>

\* this.tasks after pop()
Popped(q) ==
    LET k == PopIndex(q)
    IN  [j \in 1 .. (Len(q) - 1) |-> IF j < k THEN q[j] ELSE q[j + 1]]

\* _triggerWork looking for a free worker before it looks at the queue
TriggerWorkFindsWorkerFirst(S, load) ==
    CHOOSE r \in
        { IF S.tasks = <<>> \/ f.thread = 0
          THEN f.S
          ELSE Work([f.S EXCEPT !.tasks = Popped(@)],
                    f.S.tasks[PopIndex(f.S.tasks)], f.thread, load) :
          f \in {FindFreeWorker(S)} } : TRUE

\* _triggerWork (f is bound to the result of the one call of _findFreeWorker)
TriggerWork(S, load) ==
    IF S.tasks = <<>>
    THEN S
    ELSE CHOOSE r \in
             { IF f.thread = 0
               THEN f.S
               ELSE Work([f.S EXCEPT !.tasks = Popped(@)],
                         f.S.tasks[PopIndex(f.S.tasks)], f.thread, load) :
               f \in {FindFreeWorker(S)} } : TRUE

\* the resolve / reject wrappers of execute: settle the promise (the first
\* call decides) and call onFinish with the stats
Call(S, t, fn, arg) ==
    [S EXCEPT !.task[t].calls =
        Append(@, [fn |-> fn, arg |-> arg, time |-> now - S.task[t].time_start])]

\* onWokerFinished without clearTimeout
OnWokerFinishedKeepsTimer(S, t, cb, load) ==
    LET w == S.task[t].thread
        S1 == [S EXCEPT !.worker[w].busy = FALSE]
        S2 == IF cb = <<>> THEN S1 ELSE Call(S1, t, cb[1].fn, cb[1].arg)
    IN  TriggerWork(S2, load)

\* onWokerFinished of the _work call of task t; cb is <<>> or one wrapper call
OnWokerFinished(S, t, cb, load) ==
    LET w == S.task[t].thread
        S1 == [S EXCEPT !.task[t].timer = IF @ = "armed" THEN "cleared" ELSE @,
                        !.worker[w].busy = FALSE]
        S2 == IF cb = <<>> THEN S1 ELSE Call(S1, t, cb[1].fn, cb[1].arg)
    IN  TriggerWork(S2, load)

\* thread.onMessage, thread.onError, thread.onExit as last set by _work
OnMessage(S, w, result, load) ==
    LET t == S.worker[w].handler
    IN  IF t = 0 THEN S
        ELSE OnWokerFinished(S, t, <<[fn |-> "resolve", arg |-> result]>>, load)

OnError(S, w, error, load) ==
    LET t == S.worker[w].handler
    IN  IF t = 0 THEN S
        ELSE OnWokerFinished(S, t, <<[fn |-> "reject", arg |-> error]>>, load)

OnExitSharedFlag(S, w, code, load) ==
    LET t == S.worker[w].handler
        S1 == IF code.v # 0
              THEN Call(S, t, "reject",
                        IF \E u \in DOMAIN S.task : S.task[u].timeoutReached
                        THEN Val("timeout", EXECUTION_TIMEOUT_MS)
                        ELSE Val("exitcode", code.v))
              ELSE S
    IN  IF t = 0 THEN S ELSE OnWokerFinished(S1, t, <<>>, load)

OnExit(S, w, code, load) ==
    LET t == S.worker[w].handler
        S1 == IF code.v # 0
              THEN Call(S, t, "reject",
                        IF S.task[t].timeoutReached
                        THEN Val("timeout", EXECUTION_TIMEOUT_MS)
                        ELSE Val("exitcode", code.v))
              ELSE S
    IN  IF t = 0 THEN S ELSE OnWokerFinished(S1, t, <<>>, load)

\* the callback of _setupWorkTimeout leaving the thread in its slot
OnTimeoutKeepsSlot(S, t) ==
    LET w == S.task[t].thread
        S1 == Terminate(S, w)
    IN  [S1 EXCEPT !.task[t].timeoutReached = TRUE,
                   !.task[t].timer = "fired"]

\* the callback of _setupWorkTimeout
OnTimeout(S, t) ==
    LET w == S.task[t].thread
        S1 == Terminate(S, w)
    IN  [S1 EXCEPT !.threads = SetSlot(@, S.worker[w].index, 0),
                   !.task[t].timeoutReached = TRUE,
                   !.task[t].timer = "fired"]

NewTask(in) ==
    [wasmFile |-> in.wasmFile, params |-> in.params, thread |-> 0,
     time_start |-> 0, timeoutReached |-> FALSE, timer |-> "none",
     calls |-> <<>>, loadFailed |-> FALSE, module |-> 0, exec |-> 0]

-----------------------------------------------------------------------------
(* Actions *)

Init ==
    /\ poolSize \in 1 .. MaxPoolSize
    /\ threads = [i \in 0 .. (poolSize - 1) |-> 0]
    /\ tasks = <<>>
    /\ task = <<>>
    /\ worker = <<>>
    /\ map = [k \in Files |-> NoEntry]
    /\ now = 0
    /\ unhandled = FALSE
    /\ halted = FALSE
    /\ gets = <<>>
    /\ nextSweep = CACHE_TTL_MS
    /\ registry = [n \in ModuleNames |-> 0]
    /\ nmodules = 0
    /\ reply = NoReply
    /\ micro = <<>>
    /\ pipelined = FALSE
    /\ busy = 0
    /\ removed = {}

\* WasmThreadExecutor.execute
Execute(in, load) ==
    /\ ~halted
    /\ Len(task) < MaxTasks
    /\ LET S1 == [State EXCEPT !.task = Append(@, NewTask(in)),
                               !.tasks = Append(@, Len(task) + 1)]
       IN  \E S2 \in {TriggerWork(S1, load)} : Commit(S2)
    /\ UNCHANGED <<poolSize, now, cacheVars, platformVars, variantVars>>

\* worker.js exec: run the posted module and post the result
WorkerExec(w) ==
    /\ ~halted
    /\ w \in DOMAIN worker
    /\ worker[w].state = "alive"
    /\ worker[w].inbox # <<>>
    /\ worker' = [worker EXCEPT
           ![w].inbox = Tail(@),
           ![w].events = Append(@, Event("message", ExecModule(Head(worker[w].inbox))))]
    /\ UNCHANGED <<poolSize, threads, tasks, task, map, now, unhandled, halted,
                   cacheVars, platformVars, variantVars>>

\* the worker dies while running a task: an uncaught error (error event, then
\* exit code 1) or an abnormal exit alone
WorkerCrash(w, withError) ==
    /\ ~halted
    /\ worker[w].state = "alive"
    /\ worker[w].inbox # <<>>
    /\ worker' = [worker EXCEPT
           ![w].state = "dead",
           ![w].inbox = <<>>,
           ![w].events = @ \o (IF withError
                               THEN <<Event("error", Val("workererror", 0))>>
                               ELSE <<>>)
                           \o <<Event("exit", Val("code", 1))>>]
    /\ UNCHANGED <<poolSize, threads, tasks, task, map, now, unhandled, halted,
                   cacheVars, platformVars, variantVars>>

\* the main thread receives the next event of worker w
Deliver(w, load) ==
    /\ ~halted
    /\ w \in DOMAIN worker
    /\ worker[w].events # <<>>
    /\ LET e == Head(worker[w].events)
           S1 == [State EXCEPT !.worker[w].events = Tail(@)]
       IN  \E S2 \in {CASE e.type = "message" -> OnMessage(S1, w, e.arg, load)
                    [] e.type = "error" -> OnError(S1, w, e.arg, load)
                    [] e.type = "exit" -> OnExit(S1, w, e.arg, load)} : Commit(S2)
    /\ UNCHANGED <<poolSize, now, cacheVars, platformVars, variantVars>>

\* the watchdog of task t fires
TimerFire(t) ==
    /\ ~halted
    /\ task[t].timer = "armed"
    /\ Commit(OnTimeout(State, t))
    /\ UNCHANGED <<poolSize, now, cacheVars, platformVars, variantVars>>

Next ==
    \/ \E in \in Inputs, load \in LoadOutcomes : Execute(in, load)
    \/ \E w \in DOMAIN worker : WorkerExec(w)
    \/ \E w \in DOMAIN worker, e \in BOOLEAN : WorkerCrash(w, e)
    \/ \E w \in DOMAIN worker, load \in LoadOutcomes : Deliver(w, load)
    \/ \E t \in DOMAIN task : TimerFire(t)

Spec == Init /\ [][Next]_vars

\* The executor when nothing goes wrong: every module returns, every file
\* loads, no worker dies and no watchdog fires.  The event loop handles
\* every event a worker posted and a worker runs every module posted to it.
NextNoFault ==
    \/ \E in \in ReturningInputs : Execute(in, "ok")
    \/ \E w \in DOMAIN worker : WorkerExec(w)
    \/ \E w \in DOMAIN worker : Deliver(w, "ok")

SpecNoFault ==
    /\ Init
    /\ [][NextNoFault]_vars
    /\ \A w \in 1 .. MaxTasks :
          WF_vars(WorkerExec(w)) /\ WF_vars(Deliver(w, "ok"))

-----------------------------------------------------------------------------
(* SharedBufferCache on its own: a client calls get with a supplier that    *)
(* takes time (the await in get yields to other calls), the interval timer  *)
(* set up by the constructor calls _evict every ttl, and time passes.       *)

NewGet(key) ==
    [key |-> key, phase |-> "loading", supplied |-> FALSE, value |-> "none",
     idle |-> -1, start |-> now, at |-> -1]

\* get setting the timestamp only when it loads (the earlier Cache.get)
CacheGetStartNoRefresh(key) ==
    /\ Len(gets) < MaxGets
    /\ IF map[key] # NoEntry
       THEN /\ gets' = Append(gets, [NewGet(key) EXCEPT
                                        !.phase = "returned",
                                        !.value = map[key].value,
                                        !.idle = now - map[key].timestamp,
                                        !.at = now])
            /\ map' = map
       ELSE /\ gets' = Append(gets, [NewGet(key) EXCEPT !.supplied = TRUE])
            /\ map' = map
    /\ UNCHANGED <<execVars, now, nextSweep, platformVars, variantVars>>

\* get up to its await: a hit refreshes the timestamp and returns, a miss
\* calls the supplier
CacheGetStart(key) ==
    /\ Len(gets) < MaxGets
    /\ IF map[key] # NoEntry
       THEN /\ gets' = Append(gets, [NewGet(key) EXCEPT
                                        !.phase = "returned",
                                        !.value = map[key].value,
                                        !.idle = now - map[key].timestamp,
                                        !.at = now])
            /\ map' = [map EXCEPT ![key].timestamp = now]
       ELSE /\ gets' = Append(gets, [NewGet(key) EXCEPT !.supplied = TRUE])
            /\ map' = map
    /\ UNCHANGED <<execVars, now, nextSweep, platformVars, variantVars>>

\* get storing an entry without a value when the supplier fails
CacheGetResumeStoresFailure(i, ok) ==
    /\ i \in DOMAIN gets
    /\ gets[i].phase = "loading"
    /\ IF ok
       THEN /\ map' = [map EXCEPT ![gets[i].key] =
                          [value |-> ReadFile(gets[i].key), timestamp |-> now]]
            /\ gets' = [gets EXCEPT ![i].phase = "returned",
                                    ![i].value = ReadFile(gets[i].key),
                                    ![i].at = now]
       ELSE /\ map' = [map EXCEPT ![gets[i].key] =
                          [value |-> "none", timestamp |-> now]]
            /\ gets' = [gets EXCEPT ![i].phase = "failed", ![i].at = now]
    /\ UNCHANGED <<execVars, now, nextSweep, platformVars, variantVars>>

\* get after its await: the supplier's data is wrapped, stored and returned,
\* or the supplier's error leaves get
CacheGetResume(i, ok) ==
    /\ i \in DOMAIN gets
    /\ gets[i].phase = "loading"
    /\ IF ok
       THEN /\ map' = [map EXCEPT ![gets[i].key] =
                          [value |-> ReadFile(gets[i].key), timestamp |-> now]]
            /\ gets' = [gets EXCEPT ![i].phase = "returned",
                                    ![i].value = ReadFile(gets[i].key),
                                    ![i].at = now]
       ELSE /\ map' = map
            /\ gets' = [gets EXCEPT ![i].phase = "failed", ![i].at = now]
    /\ UNCHANGED <<execVars, now, nextSweep, platformVars, variantVars>>

\* _evict with `timestamp <= timeout`
EvictAtTtl(m) ==
    [k \in DOMAIN m |->
        IF m[k] # NoEntry /\ m[k].timestamp <= now - CACHE_TTL_MS
        THEN NoEntry
        ELSE m[k]]

\* _evict: delete the entries with timestamp < Date.now() - ttl
Evict(m) ==
    [k \in DOMAIN m |->
        IF m[k] # NoEntry /\ m[k].timestamp < now - CACHE_TTL_MS
        THEN NoEntry
        ELSE m[k]]

\* the interval timer of the constructor fires
Sweep ==
    /\ now >= nextSweep
    /\ map' = Evict(map)
    /\ nextSweep' = now + CACHE_TTL_MS
    /\ UNCHANGED <<execVars, now, gets, platformVars, variantVars>>

\* time passes; a timer that is due fires first
Tick ==
    /\ now < nextSweep
    /\ now < MaxTicks * ClockStep
    /\ now' = now + ClockStep
    /\ UNCHANGED <<execVars, map, gets, nextSweep, platformVars, variantVars>>

NextCache ==
    \/ \E key \in CacheKeys : CacheGetStart(key)
    \/ \E i \in DOMAIN gets, ok \in BOOLEAN : CacheGetResume(i, ok)
    \/ Sweep
    \/ Tick

\* the executor around the cache is one with a single slot that gets no task
InitCache == Init /\ poolSize = 1

SpecCache == InitCache /\ [][NextCache]_vars

-----------------------------------------------------------------------------
(* Platform: the registry and the controllers exec, register and stats *)

\* fs.existsSync(`${PATH_TO_MODULES}/${moduleName}.wasm`)
FileExists(name) == name \in Files /\ name \notin removed

\* the parameters of the requests made
PlatformParams(name) == IF name = "sum" THEN <<5, 2>> ELSE <<>>

\* onFinish looking the module up by name when it runs, in place of the
\* object exec had read from the registry
FinishedCallsByName(m) ==
    {c \in (DOMAIN task) \X (1 .. 2) :
        /\ task[c[1]].module # 0
        /\ registry[task[c[1]].wasmFile] = m
        /\ c[2] \in DOMAIN task[c[1]].calls}

\* the wrapper calls made so far for the tasks of module object m, each of
\* which called the onFinish closure of that object
FinishedCalls(m) ==
    {c \in (DOMAIN task) \X (1 .. 2) :
        task[c[1]].module = m /\ c[2] \in DOMAIN task[c[1]].calls}

\* module.stats.counter of module object m
ModuleCounter(m) == Cardinality(FinishedCalls(m))

RECURSIVE SumTimes(_)
SumTimes(cs) ==
    IF cs = {} THEN 0
    ELSE LET c == CHOOSE x \in cs : TRUE
         IN  task[c[1]].calls[c[2]].time + SumTimes(cs \ {c})

\* module.stats.time of module object m
ModuleTime(m) == SumTimes(FinishedCalls(m))

\* Platform.exec without the test of the registry
PlatformExecUnchecked(name, load) ==
    /\ ~halted
    /\ Len(task) < MaxTasks
    /\ LET in == [wasmFile |-> name, params |-> PlatformParams(name)]
           S1 == [State EXCEPT
                     !.task = Append(@, [NewTask(in) EXCEPT
                                            !.module = registry[name]]),
                     !.tasks = Append(@, Len(task) + 1)]
       IN  \E S2 \in {TriggerWork(S1, load)} : Commit(S2)
    /\ reply' = Reply("exec", name, 0, "pending", 0, 0)
    /\ UNCHANGED <<poolSize, now, cacheVars, registry, nmodules, removed, variantVars>>

\* Platform.exec
PlatformExec(name, load) ==
    /\ ~halted
    /\ registry[name] # 0 => Len(task) < MaxTasks
    /\ IF registry[name] = 0
       THEN /\ reply' = Reply("exec", name, 500, "cannot find module", 0, 0)
            /\ UNCHANGED <<execVars, map>>
       ELSE /\ LET in == [wasmFile |-> name, params |-> PlatformParams(name)]
                   S1 == [State EXCEPT
                             !.task = Append(@, [NewTask(in) EXCEPT
                                                    !.module = registry[name]]),
                             !.tasks = Append(@, Len(task) + 1)]
               IN  \E S2 \in {TriggerWork(S1, load)} : Commit(S2)
            /\ reply' = Reply("exec", name, 0, "pending", 0, 0)
            /\ UNCHANGED poolSize
    /\ UNCHANGED <<now, cacheVars, registry, nmodules, removed, variantVars>>

\* Platform.register without the test of fs.existsSync
RegisterUnchecked(name) ==
    /\ ~halted
    /\ nmodules < MaxRegistrations
    /\ nmodules' = nmodules + 1
    /\ registry' = [registry EXCEPT ![name] = nmodules + 1]
    /\ reply' = Reply("register", name, 200, "registered successfully", 0, 0)
    /\ UNCHANGED <<execVars, map, now, cacheVars, removed, variantVars>>

\* Platform.register
Register(name) ==
    /\ ~halted
    /\ FileExists(name) => nmodules < MaxRegistrations
    /\ IF FileExists(name)
       THEN /\ nmodules' = nmodules + 1
            /\ registry' = [registry EXCEPT ![name] = nmodules + 1]
            /\ reply' = Reply("register", name, 200, "registered successfully", 0, 0)
       ELSE /\ reply' = Reply("register", name, 500, "module not found", 0, 0)
            /\ UNCHANGED <<registry, nmodules>>
    /\ UNCHANGED <<execVars, map, now, cacheVars, removed, variantVars>>

\* Platform.stats
PlatformStats(name) ==
    /\ ~halted
    /\ reply' = IF registry[name] = 0
                THEN Reply("stats", name, 500, "cannot find module", 0, 0)
                ELSE Reply("stats", name, 200, "statistics",
                           ModuleTime(registry[name]), ModuleCounter(registry[name]))
    /\ UNCHANGED <<execVars, map, now, cacheVars, registry, nmodules, removed, variantVars>>

\* The platform serving requests while files load and the watchdog stays
\* quiet: workers run the modules or die, and their events are delivered.
NextPlatform ==
    \/ \E name \in ModuleNames : Register(name)
    \/ \E name \in ModuleNames : PlatformExec(name, "ok")
    \/ \E name \in ModuleNames : PlatformStats(name)
    \/ \E w \in DOMAIN worker : WorkerExec(w)
    \/ \E w \in DOMAIN worker, e \in BOOLEAN : WorkerCrash(w, e)
    \/ \E w \in DOMAIN worker : Deliver(w, "ok")

SpecPlatform == Init /\ [][NextPlatform]_vars

-----------------------------------------------------------------------------
(* HttpServer._processRequest around the controllers of Platform: a        *)
(* request is answered when the controller returns or throws, and a        *)
(* request for exec when the promise of Platform.exec settles, which is    *)
(* in the step that delivers the worker event settling the task.           *)

\* the first path segments of the requests made: the three controllers, a
\* name that is no property of the controllers object, and two names the
\* object inherits from Object.prototype
ControllerNames ==
    {"exec", "register", "stats", "nocontroller", "__proto__", "toString"}

\* this.controllers[request.controller]: the kind of value the lookup gives
ControllerFn(controller) ==
    CASE controller \in {"exec", "register", "stats"} -> "controller"
      [] controller = "__proto__" -> "object"
      [] controller = "toString" -> "function"
      [] OTHER -> "undefined"

\* `${result}` of _processRequest
Template(v) ==
    CASE v.kind = "value" -> ToString(v.v)
      [] v.kind = "undefined" -> "undefined"
      [] v.kind = "wasmerror" -> "RuntimeError"
      [] OTHER -> v.kind

\* the promise of Platform.exec once the wrapper call has settled the
\* promise of execute: .catch logs a rejection and returns nothing
ExecPromise(call) ==
    IF call.fn = "resolve"
    THEN [ok |-> TRUE, value |-> call.arg]
    ELSE [ok |-> TRUE, value |-> Val("undefined", 0)]

\* _processRequest after `await controllerFn(...)` for a request of exec
ExecAnswer(name, call) ==
    LET p == ExecPromise(call)
    IN  IF p.ok
        THEN Reply("exec", name, 200, Template(p.value), 0, 0)
        ELSE Reply("exec", name, 500, Template(p.value), 0, 0)

\* _processRequest for a first path segment that names no controller
HttpOther(controller, name) ==
    /\ ~halted
    /\ ControllerFn(controller) # "controller"
    /\ reply' = CASE ControllerFn(controller) = "undefined" ->
                       Reply(controller, name, 400, "wrong request", 0, 0)
                  [] ControllerFn(controller) = "function" ->
                       Reply(controller, name, 200, "[object Undefined]", 0, 0)
                  [] ControllerFn(controller) = "object" ->
                       Reply(controller, name, 500, "TypeError", 0, 0)
    /\ UNCHANGED <<execVars, map, now, cacheVars, registry, nmodules, removed, variantVars>>

\* the main thread receives the next event of worker w; the request whose
\* task the event settles is answered
HttpDeliver(w) ==
    /\ ~halted
    /\ w \in DOMAIN worker
    /\ worker[w].events # <<>>
    /\ LET e == Head(worker[w].events)
           S1 == [State EXCEPT !.worker[w].events = Tail(@)]
       IN  \E S2 \in {CASE e.type = "message" -> OnMessage(S1, w, e.arg, "ok")
                    [] e.type = "error" -> OnError(S1, w, e.arg, "ok")
                    [] e.type = "exit" -> OnExit(S1, w, e.arg, "ok")} :
               /\ Commit(S2)
               /\ LET settled == {t \in DOMAIN task :
                                     task[t].calls = <<>> /\ S2.task[t].calls # <<>>}
                  IN  reply' = IF settled = {} THEN reply
                               ELSE LET t == CHOOSE u \in settled : TRUE
                                    IN  ExecAnswer(task[t].wasmFile,
                                                   S2.task[t].calls[1])
    /\ UNCHANGED <<poolSize, now, cacheVars, registry, nmodules, removed, variantVars>>

\* a request of exec
HttpExec(name) ==
    /\ registry[name] # 0 => Len(task) < MaxRequests
    /\ PlatformExec(name, "ok")

\* The platform behind its HTTP server: requests of every kind, workers
\* that run the modules or die, watchdogs that fire.
NextHttp ==
    \/ \E name \in ModuleNames : Register(name)
    \/ \E name \in ModuleNames : HttpExec(name)
    \/ \E name \in ModuleNames : PlatformStats(name)
    \/ \E c \in ControllerNames, name \in {"sum"} : HttpOther(c, name)
    \/ \E w \in DOMAIN worker : WorkerExec(w)
    \/ \E w \in DOMAIN worker, e \in BOOLEAN : WorkerCrash(w, e)
    \/ \E w \in DOMAIN worker : HttpDeliver(w)
    \/ \E t \in DOMAIN task : TimerFire(t)

SpecHttp == Init /\ [][NextHttp]_vars

-----------------------------------------------------------------------------
(* The registry while module files come and go: a file registered earlier  *)
(* may be deleted from PATH_TO_MODULES.  Requests of exec are made for     *)
(* modules whose file is in place, and a file is deleted while no task     *)
(* for it waits in the queue, so every load finds its file.                *)

\* the files that are deleted at some moment
Removable == {"sum", "trap"}

\* a module file is deleted from PATH_TO_MODULES
RemoveFile(name) ==
    /\ ~halted
    /\ FileExists(name)
    /\ \A k \in DOMAIN tasks : task[tasks[k]].wasmFile # name
    /\ removed' = removed \cup {name}
    /\ UNCHANGED <<execVars, map, now, cacheVars, registry, nmodules, reply,
                   variantVars>>

NextRegistry ==
    \/ \E name \in ModuleNames : Register(name)
    \/ \E name \in Removable : RemoveFile(name)
    \/ \E name \in ModuleNames : FileExists(name) /\ HttpExec(name)
    \/ \E name \in ModuleNames : PlatformStats(name)
    \/ \E w \in DOMAIN worker : WorkerExec(w)
    \/ \E w \in DOMAIN worker : HttpDeliver(w)

SpecRegistry == Init /\ [][NextRegistry]_vars

-----------------------------------------------------------------------------
(* The pooled executor of src/index.js lines 79-201.  Its _work is an      *)
(* async function that awaits _findFreeWorker before it looks at the       *)
(* thread, and its _createWorker stores the thread once the worker is      *)
(* online.  Here the resumption of _work after that await is a step of     *)
(* its own: `micro` is the microtask queue, holding for each _work call    *)
(* whose promise has resolved the thread it resolved with (0 for null).    *)
(* Worker events, online events and timers are macrotasks, taken when the  *)
(* microtask queue is empty.  execute is synchronous: the HTTP parser      *)
(* emits the requests it finds in one chunk of a connection one after the  *)
(* other in the same turn, so a further execute call may come before the   *)
(* resumption an execute call has queued (`pipelined`), but not between    *)
(* another macrotask and its microtasks.                                   *)

IdxState ==
    [threads |-> threads, tasks |-> tasks, task |-> task, worker |-> worker,
     map |-> map, unhandled |-> unhandled, halted |-> halted, micro |-> micro]

IdxCommit(S) ==
    /\ Commit(S)
    /\ micro' = S.micro

\* the requests of the README's sum module, with two parameter lists; the
\* module returns, so a worker ends only by terminate()
IdxInputs ==
    { [wasmFile |-> "sum", params |-> <<5, 2>>],
      [wasmFile |-> "sum", params |-> <<1, 1>>] }

\* _createWorker: a new Worker; nothing is stored before it is online
IdxCreateWorker(S, index) ==
    [S EXCEPT !.worker =
        Append(@, [NewThread(index) EXCEPT !.state = "starting"])]

\* _findFreeWorker and the await on its promise: resolved at once with an
\* idle thread or with null, or later (online) with the thread of a new worker
IdxFindFreeWorker(S) ==
    LET free == {i \in LoopIndexes(S) :
                    Slot(S, i) = 0 \/ ~S.worker[Slot(S, i)].busy}
    IN  IF free = {}
        THEN [S EXCEPT !.micro = Append(@, 0)]
        ELSE LET i == SetMin(free)
             IN  IF Slot(S, i) = 0
                 THEN IdxCreateWorker(S, i)
                 ELSE [S EXCEPT !.micro = Append(@, Slot(S, i))]

\* _work up to `await this._findFreeWorker()`
IdxWork(S) ==
    IF S.tasks = <<>> THEN S ELSE IdxFindFreeWorker(S)

\* _work from `if (!thread) return` to its end, for the thread w the promise
\* resolved with; the module is read synchronously, so the second await is
\* resumed before any other macrotask.  With an empty queue pop() returns
\* undefined and `task.wasmFile` throws after the thread was marked busy.
IdxWorkResumed(S, w) ==
    IF w = 0 THEN S
    ELSE IF S.tasks = <<>>
    THEN [S EXCEPT !.worker[w].busy = TRUE,
                   !.worker[w].handler = 0,
                   !.unhandled = TRUE]
    ELSE LET t == S.tasks[PopIndex(S.tasks)]
             S1 == [S EXCEPT !.tasks = Popped(@),
                             !.task[t].time_start = now,
                             !.task[t].thread = w,
                             !.task[t].timeoutReached = FALSE,
                             !.task[t].timer = "armed",
                             !.worker[w].busy = TRUE,
                             !.worker[w].handler = t]
             g == CacheGet(S1, S.task[t].wasmFile, "ok")
         IN  PostMessage(g.S, w, [wasmBuffer |-> g.value,
                                  params |-> S.task[t].params])

\* onFinish of the _work call of task t: the thread is idle again, the
\* watchdog of t finds running = false, and _work is called
IdxOnFinish(S, t, cb) ==
    LET w == S.task[t].thread
        S1 == [S EXCEPT !.task[t].timer = IF @ = "armed" THEN "cleared" ELSE @,
                        !.worker[w].busy = FALSE]
        S2 == IF cb = <<>> THEN S1 ELSE Call(S1, t, cb[1].fn, cb[1].arg)
    IN  IdxWork(S2)

\* thread.onMessage, thread.onError, thread.onExit as last set by _work
IdxOnMessage(S, w, result) ==
    LET t == S.worker[w].handler
    IN  IF t = 0 THEN S
        ELSE IdxOnFinish(S, t, <<[fn |-> "resolve", arg |-> result]>>)

IdxOnError(S, w, error) ==
    LET t == S.worker[w].handler
    IN  IF t = 0 THEN S
        ELSE IdxOnFinish(S, t, <<[fn |-> "reject", arg |-> error]>>)

IdxOnExit(S, w, code) ==
    LET t == S.worker[w].handler
        S1 == IF code.v # 0
              THEN Call(S, t, "reject",
                        IF S.task[t].timeoutReached
                        THEN Val("timeout", EXECUTION_TIMEOUT_MS)
                        ELSE Val("exitcode", code.v))
              ELSE S
    IN  IF t = 0 THEN S ELSE IdxOnFinish(S1, t, <<>>)

\* execute: push the task, call _work
IdxExecute(in) ==
    /\ Len(task) < MaxTasks
    /\ micro = <<>> \/ pipelined
    /\ LET S1 == [IdxState EXCEPT !.task = Append(@, NewTask(in)),
                                  !.tasks = Append(@, Len(task) + 1)]
       IN  \E S2 \in {IdxWork(S1)} :
               IdxCommit(S2) /\ pipelined' = (S2.micro # <<>>)
    /\ UNCHANGED <<poolSize, now, cacheVars, platformVars, busy>>

\* the next microtask: the _work call at the head of the queue goes on
IdxResume ==
    /\ micro # <<>>
    /\ LET S1 == [IdxState EXCEPT !.micro = Tail(@)]
       IN  \E S2 \in {IdxWorkResumed(S1, Head(micro))} : IdxCommit(S2)
    /\ pipelined' = FALSE
    /\ UNCHANGED <<poolSize, now, cacheVars, platformVars, busy>>

\* the 'online' event of a new worker: the thread object is made, put in
\* its slot and handed to the _work call that waits for it
IdxOnline(w) ==
    /\ micro = <<>>
    /\ worker[w].state = "starting"
    /\ LET S1 == [IdxState EXCEPT !.worker[w].state = "alive",
                                  !.threads = SetSlot(@, worker[w].index, w),
                                  !.micro = Append(@, w)]
       IN  IdxCommit(S1)
    /\ pipelined' = FALSE
    /\ UNCHANGED <<poolSize, now, cacheVars, platformVars, busy>>

\* the main thread receives the next event of worker w
IdxDeliver(w) ==
    /\ micro = <<>>
    /\ worker[w].events # <<>>
    /\ LET e == Head(worker[w].events)
           S1 == [IdxState EXCEPT !.worker[w].events = Tail(@)]
       IN  \E S2 \in {CASE e.type = "message" -> IdxOnMessage(S1, w, e.arg)
                    [] e.type = "error" -> IdxOnError(S1, w, e.arg)
                    [] e.type = "exit" -> IdxOnExit(S1, w, e.arg)} :
               IdxCommit(S2)
    /\ pipelined' = FALSE
    /\ UNCHANGED <<poolSize, now, cacheVars, platformVars, busy>>

\* the callback of setTimeout in _work, for a task that is still running
IdxTimerFire(t) ==
    /\ micro = <<>>
    /\ task[t].timer = "armed"
    /\ \E S2 \in {OnTimeout(IdxState, t)} : IdxCommit(S2)
    /\ pipelined' = FALSE
    /\ UNCHANGED <<poolSize, now, cacheVars, platformVars, busy>>

NextIdx ==
    \/ \E in \in IdxInputs : IdxExecute(in)
    \/ IdxResume
    \/ \E w \in DOMAIN worker : IdxOnline(w)
    \/ \E w \in DOMAIN worker : WorkerExec(w)
    \/ \E w \in DOMAIN worker : IdxDeliver(w)
    \/ \E t \in DOMAIN task : IdxTimerFire(t)

\* new WasmThreadExecutor(1)
InitIdx == Init /\ poolSize = 1

SpecIdx == InitIdx /\ [][NextIdx]_vars

-----------------------------------------------------------------------------
(* The worker-per-task executor of src/index.js lines 329-389, with the    *)
(* worker of src/worker.js lines 41-63: _work starts a new Worker for the  *)
(* task it pops, counts it in this.busy, and arms a watchdog that is never *)
(* cancelled; the worker runs the module given as workerData, posts the    *)
(* result and exits.  this.total is the variable poolSize.  execute reads  *)
(* the module synchronously, so the call and the continuation of its await *)
(* are one step.                                                           *)

PtState ==
    [threads |-> threads, tasks |-> tasks, task |-> task, worker |-> worker,
     map |-> map, unhandled |-> unhandled, halted |-> halted,
     busy |-> busy, total |-> poolSize]

PtCommit(S) ==
    /\ Commit(S)
    /\ busy' = S.busy

\* new Worker("./worker.js", {workerData}) with the listeners of task t
PtNewWorker(t, workerData) ==
    [NewThread(0) EXCEPT !.busy = TRUE, !.handler = t,
                         !.inbox = <<workerData>>]

\* _work
PtWork(S) ==
    IF S.tasks = <<>> \/ S.busy >= S.total
    THEN S
    ELSE LET t == S.tasks[PopIndex(S.tasks)]
         IN  [S EXCEPT !.busy = @ + 1,
                       !.tasks = Popped(@),
                       !.worker = Append(@, PtNewWorker(t, S.task[t].exec)),
                       !.task[t].time_start = now,
                       !.task[t].thread = Len(S.worker) + 1,
                       !.task[t].timer = "armed"]

\* onFinish of _work leaving this.busy as it is
PtOnFinishKeepsBusy(S) == PtWork(S)

\* onFinish of _work
PtOnFinish(S) == PtWork([S EXCEPT !.busy = @ - 1])

\* the listeners _work puts on the worker of task t
PtOnMessage(S, t, result) == Call(S, t, "resolve", result)

PtOnError(S, t, error) == Call(S, t, "reject", error)

PtOnExit(S, t, code) ==
    PtOnFinish(IF code.v # 0
               THEN Call(S, t, "reject", Val("exitcode", code.v))
               ELSE S)

\* the callback of setTimeout in _work
PtOnTimeout(S, t) ==
    [Terminate(S, S.task[t].thread) EXCEPT !.task[t].timer = "fired"]

\* execute: get the module from the cache, push the task, call _work
PtExecute(in) ==
    /\ Len(task) < MaxTasks
    /\ LET g == CacheGet(PtState, in.wasmFile, "ok")
           exec == [wasmBuffer |-> g.value, params |-> in.params]
           S1 == [g.S EXCEPT
                     !.task = Append(@, [NewTask(in) EXCEPT !.exec = exec]),
                     !.tasks = Append(@, Len(task) + 1)]
       IN  \E S2 \in {PtWork(S1)} : PtCommit(S2)
    /\ UNCHANGED <<poolSize, now, cacheVars, platformVars, micro, pipelined>>

\* src/worker.js lines 41-63: run the module of workerData, post the
\* result, and exit with code 0 as nothing keeps the thread alive
PtWorkerExec(w) ==
    /\ worker[w].state = "alive"
    /\ worker[w].inbox # <<>>
    /\ worker' = [worker EXCEPT
           ![w].state = "dead",
           ![w].inbox = <<>>,
           ![w].events = @ \o <<Event("message", ExecModule(Head(worker[w].inbox))),
                                Event("exit", Val("code", 0))>>]
    /\ UNCHANGED <<poolSize, threads, tasks, task, map, now, unhandled, halted,
                   cacheVars, platformVars, variantVars>>

\* the main thread receives the next event of worker w
PtDeliver(w) ==
    /\ worker[w].events # <<>>
    /\ LET e == Head(worker[w].events)
           t == worker[w].handler
           S1 == [PtState EXCEPT !.worker[w].events = Tail(@)]
       IN  \E S2 \in {CASE e.type = "message" -> PtOnMessage(S1, t, e.arg)
                    [] e.type = "error" -> PtOnError(S1, t, e.arg)
                    [] e.type = "exit" -> PtOnExit(S1, t, e.arg)} :
               PtCommit(S2)
    /\ UNCHANGED <<poolSize, now, cacheVars, platformVars, micro, pipelined>>

\* the watchdog of task t fires: nothing cancels it
PtTimerFire(t) ==
    /\ task[t].timer = "armed"
    /\ \E S2 \in {PtOnTimeout(PtState, t)} : PtCommit(S2)
    /\ UNCHANGED <<poolSize, now, cacheVars, platformVars, micro, pipelined>>

NextPt ==
    \/ \E in \in Inputs : PtExecute(in)
    \/ \E w \in DOMAIN worker : PtWorkerExec(w)
    \/ \E w \in DOMAIN worker, e \in BOOLEAN : WorkerCrash(w, e)
    \/ \E w \in DOMAIN worker : PtDeliver(w)
    \/ \E t \in DOMAIN task : PtTimerFire(t)

SpecPt == Init /\ [][NextPt]_vars

-----------------------------------------------------------------------------
(* Derived notions used by the properties *)

\* _countOfBusyWorkers
CountOfBusyWorkers ==
    Cardinality({i \in DOMAIN threads :
                    threads[i] # 0 /\ worker[threads[i]].busy})

Waiting == {tasks[k] : k \in DOMAIN tasks}

\* the tasks whose _work call starts in this step
DispatchedNow ==
    {t \in DOMAIN task' :
        /\ task'[t].thread # 0
        /\ (t \in DOMAIN task => task[t].thread = 0)}

-----------------------------------------------------------------------------
\* C1: in every reachable state the number of slots of this.threads whose
\* thread is marked busy is at most poolSize.
C1_BusyAtMostPoolSize == CountOfBusyWorkers <= poolSize

\* C1 witness: every slot of a pool of two is busy while a task waits.
C1_Witness ==
    /\ poolSize = 2
    /\ CountOfBusyWorkers = poolSize
    /\ tasks # <<>>

-----------------------------------------------------------------------------
\* C5: whenever a task is dispatched, every task left waiting in the queue
\* was submitted before it (task ids grow in submission order): the task
\* dispatched is the most recently submitted one among those waiting.
C5_DispatchesNewestWaiting ==
    [][\A t \in DispatchedNow : \A u \in Waiting' : u < t]_vars

\* C5 witness: pool size 1, t1 dispatched first, then t3 is dispatched while
\* t2, submitted before it, is still waiting.
C5_Witness ==
    /\ poolSize = 1
    /\ Len(task) = 3
    /\ task[1].thread # 0
    /\ task[3].thread # 0
    /\ tasks = <<2>>

-----------------------------------------------------------------------------
(* What the caller of execute and Platform.exec observe *)

Calls(t) == task[t].calls

\* the promise of execute is settled by the first wrapper call
Settled(t) == Calls(t) # <<>>

\* module.stats.counter of Platform.exec's onFinish, which every wrapper
\* call invokes, for a module registered once
StatsCounter(wasmFile) ==
    Cardinality({c \in (DOMAIN task) \X (1 .. 2) :
                    /\ task[c[1]].wasmFile = wasmFile
                    /\ c[2] \in DOMAIN Calls(c[1])})

\* the executions of a module that have completed
Completed(wasmFile) ==
    Cardinality({t \in DOMAIN task : task[t].wasmFile = wasmFile /\ Settled(t)})

\* a wrapper call made for the worker's result message or its error event
IsNatural(c) == c.fn = "resolve" \/ c.arg.kind = "workererror"

IsTimeoutFault(c) == c.fn = "reject" /\ c.arg.kind = "timeout"

\* what src/worker.js computes for the module and parameters of task t
OwnResult(t) ==
    ExecModule([wasmBuffer |-> ReadFile(task[t].wasmFile),
                params |-> task[t].params])

\* some event can still happen without a further execute call
CanProgress ==
    \/ \E w \in DOMAIN worker :
          \/ worker[w].events # <<>>
          \/ worker[w].state = "alive" /\ worker[w].inbox # <<>>
    \/ \E t \in DOMAIN task : task[t].timer = "armed"

HasEvent(w, type) ==
    \E k \in DOMAIN worker[w].events : worker[w].events[k].type = type

-----------------------------------------------------------------------------
\* C2: for every task, the watchdog's timeout fault and the natural
\* completion (result message or error event) never both reach the task's
\* resolve/reject wrappers.
C2_OnlyOneFulfills ==
    \A t \in DOMAIN task :
        ~ \E i, j \in DOMAIN Calls(t) :
              IsNatural(Calls(t)[i]) /\ IsTimeoutFault(Calls(t)[j])

-----------------------------------------------------------------------------
\* C3: no submitted task stays pending forever: while the process runs and
\* a task is not settled, something that is not a new execute call can still
\* happen (a worker event to deliver, a module running, a watchdog armed).
C3_NoTaskStuck ==
    \A t \in DOMAIN task : (~halted /\ ~Settled(t)) => CanProgress

-----------------------------------------------------------------------------
\* C4: onFinish is invoked once per task, so the request counter of every
\* module equals the number of its completed executions.
C4_StatsCountCompleted ==
    \A f \in Files : StatsCounter(f) = Completed(f)

-----------------------------------------------------------------------------
\* C6: with no faults and no timeouts every submitted task is eventually
\* resolved, exactly once, with the result computed for its own module and
\* parameters, and never with anything else.
C6_AllResolvedWithOwnResult ==
    /\ [](\A t \in DOMAIN task :
            \A i \in DOMAIN Calls(t) :
                /\ i = 1
                /\ Calls(t)[i].fn = "resolve"
                /\ Calls(t)[i].arg = OwnResult(t))
    /\ \A t \in 1 .. MaxTasks :
          (t \in DOMAIN task) ~> (t \in DOMAIN task /\ Settled(t))

\* C6 witness: three tasks with three different results, all resolved, two
\* of them by the same worker.
C6_Witness ==
    /\ Len(task) = 3
    /\ \A t \in DOMAIN task : Settled(t)
    /\ \A t, u \in DOMAIN task : t # u => Calls(t)[1].arg # Calls(u)[1].arg
    /\ \E t, u \in DOMAIN task : t # u /\ task[t].thread = task[u].thread

-----------------------------------------------------------------------------
\* C7: a task whose watchdog fired and whose worker posted no result is
\* rejected with the timeout fault: the rejection was made, or the exit
\* event that makes it is on its way.
C7_TimedOutTaskIsRejected ==
    \A t \in DOMAIN task :
        task[t].timer = "fired" =>
            \/ \E i \in DOMAIN Calls(t) : IsTimeoutFault(Calls(t)[i])
            \/ HasEvent(task[t].thread, "exit")
            \/ HasEvent(task[t].thread, "message")
            \/ \E i \in DOMAIN Calls(t) : Calls(t)[i].fn = "resolve"

-----------------------------------------------------------------------------
\* C8: a task whose module bytes could not be loaded never had a thread
\* marked busy for it and never had a watchdog armed.
C8_LoadFailureOccupiesNothing ==
    \A t \in DOMAIN task :
        task[t].loadFailed => (task[t].thread = 0 /\ task[t].timer = "none")

-----------------------------------------------------------------------------
\* C9: no task is ever dispatched to a thread whose worker is dead.
C9_NoDispatchToDeadWorker ==
    [][\A t \in DispatchedNow : worker'[task'[t].thread].state = "alive"]_vars

-----------------------------------------------------------------------------
\* C10 as claimed: the error of a trapping entry function reaches the caller
\* as a rejection.
C10_TrapRejects ==
    \A t \in DOMAIN task :
        \A i \in DOMAIN Calls(t) :
            Calls(t)[i].arg.kind = "wasmerror" => Calls(t)[i].fn = "reject"

Traps(t) ==
    StartFunction(ReadFile(task[t].wasmFile), task[t].params).kind = "throw"

\* C10 amended: the error of a trapping entry function is caught by the
\* worker and posted as its result, so the promise is resolved with the
\* error value and never rejected with it; once that message is handled (the
\* watchdog cleared) the worker is alive, not busy and still in its slot.
C10_TrapResolvesWorkerStays ==
    \A t \in DOMAIN task :
        Traps(t) =>
            /\ \A i \in DOMAIN Calls(t) :
                  (Calls(t)[i].fn = "resolve") = (Calls(t)[i].arg = Val("wasmerror", 0))
            /\ ( /\ Settled(t)
                 /\ Calls(t)[1].fn = "resolve"
                 /\ task[t].timer = "cleared"
                 /\ worker[task[t].thread].handler = t )
               => LET w == task[t].thread
                  IN  /\ worker[w].state = "alive"
                      /\ ~worker[w].busy
                      /\ worker[w].inbox = <<>>
                      /\ threads[worker[w].index] = w

\* C10 witness: a task trapped and was resolved with the error value, and the
\* next task dispatched to the same worker was resolved with its sum.
C10_Witness ==
    \E t, u \in DOMAIN task :
        /\ Traps(t)
        /\ Calls(t) = <<[fn |-> "resolve", arg |-> Val("wasmerror", 0), time |-> 0]>>
        /\ task[u].thread = task[t].thread
        /\ t < u
        /\ Calls(u) = <<[fn |-> "resolve", arg |-> Val("value", 7), time |-> 0]>>

-----------------------------------------------------------------------------
\* C11: no task is dispatched more than once and no busy thread is given a
\* further task.  In every step: at most one task is dispatched; it comes
\* from the queue (or was just submitted); a task that has a thread keeps
\* it, never returns to the queue and never gets a second watchdog; the
\* queue holds no task twice; and a thread that was busy before the step is
\* given a task only in the step that handles one of its own events, after
\* the handler of its previous task has freed it.
C11_DispatchedOnceToFreeThread ==
    [][ /\ Cardinality(DispatchedNow) <= 1
        /\ \A t \in DOMAIN task :
              task[t].thread # 0 =>
                  /\ task'[t].thread = task[t].thread
                  /\ t \notin Waiting'
                  /\ (task[t].timer # "armed" => task'[t].timer # "armed")
        /\ \A j, k \in DOMAIN tasks' : j # k => tasks'[j] # tasks'[k]
        /\ \A t \in DispatchedNow :
              /\ t \in DOMAIN task => t \in Waiting
              /\ LET w == task'[t].thread
                 IN  (w \in DOMAIN worker /\ worker[w].busy) =>
                         /\ worker[w].events # <<>>
                         /\ worker'[w].events = Tail(worker[w].events)
                         /\ task'[worker[w].handler].timer # "armed"
                         /\ worker[w].handler # t
      ]_vars

\* C11 witness: pool size 1; the first task timed out and was rejected, the
\* two tasks that waited behind it were both dispatched afterwards.
C11_Witness ==
    /\ poolSize = 1
    /\ Len(task) = 3
    /\ task[1].timer = "fired"
    /\ Settled(1)
    /\ task[2].thread # 0
    /\ task[3].thread # 0
    /\ task[2].thread # task[1].thread

-----------------------------------------------------------------------------
(* The cache as its client sees it *)

\* get j was called after get i had returned
StartedAfterReturn(i, j) ==
    /\ i < j
    /\ gets[i].phase = "returned"
    /\ gets[j].start > gets[i].at \/ ~gets[i].supplied

\* get j was called while the supplier call of get i was pending
StartedWhilePending(i, j) ==
    /\ i < j
    /\ gets[i].supplied
    /\ \/ gets[i].phase = "loading"
       \/ gets[i].phase = "returned" /\ gets[i].at >= gets[j].start

\* C12: a get that starts after a get for the same key has returned, and at
\* most ttl after it, does not invoke the supplier and returns the same
\* content, whatever sweeps ran in between.
C12_SecondGetWithinTtlHits ==
    \A i, j \in DOMAIN gets :
        ( /\ gets[i].key = gets[j].key
          /\ StartedAfterReturn(i, j)
          /\ gets[j].start <= gets[i].at + CACHE_TTL_MS )
        => /\ ~gets[j].supplied
           /\ gets[j].phase = "returned"
           /\ gets[j].value = gets[i].value

\* C12 witness: the first get loaded the entry half a ttl after the cache
\* was built, the sweep at ttl ran, and the second get came exactly ttl
\* after the first and was served from the cache.
C12_Witness ==
    \E i, j \in DOMAIN gets :
        /\ i < j
        /\ gets[i].key = gets[j].key
        /\ gets[i].supplied /\ gets[i].phase = "returned"
        /\ gets[i].at = ClockStep
        /\ gets[j].start = ClockStep + CACHE_TTL_MS
        /\ nextSweep = 2 * CACHE_TTL_MS
        /\ ~gets[j].supplied
        /\ gets[j].value = ReadFile(gets[j].key)

-----------------------------------------------------------------------------
\* C13: no get returns a cached value whose last access is ttl or more in
\* the past (idle is the time since the last access of the entry a get
\* found, -1 when it found none).
C13_NoStaleHit ==
    \A i \in DOMAIN gets : gets[i].idle < CACHE_TTL_MS

-----------------------------------------------------------------------------
\* C14: when a get starts while the supplier call of an earlier get for the
\* same key is pending, it does not invoke the supplier again.
C14_SingleFlight ==
    \A i, j \in DOMAIN gets :
        (gets[i].key = gets[j].key /\ StartedWhilePending(i, j))
        => ~gets[j].supplied

-----------------------------------------------------------------------------
(* The slot table *)

AllSlotsBusy ==
    \A i \in DOMAIN threads : threads[i] # 0 /\ worker[threads[i]].busy

SomeSlotFree ==
    \E i \in DOMAIN threads : threads[i] = 0 \/ ~worker[threads[i]].busy

\* the watchdog of a task on thread w has fired
WatchdogKilled(w) ==
    \E t \in DOMAIN task : task[t].timer = "fired" /\ task[t].thread = w

-----------------------------------------------------------------------------
\* C15: a fault of one task never leaves _triggerWork/_work as an unhandled
\* rejection, and the tasks still in the queue go on being served: while
\* the queue is not empty something can still happen.
C15_FaultsStayTaskOutcomes ==
    /\ ~unhandled
    /\ tasks # <<>> => CanProgress

-----------------------------------------------------------------------------
\* C16: a worker terminated by the watchdog is in no slot and no task is
\* dispatched to it afterwards; the thread that next takes an emptied slot
\* is a newly created one.
C16_TerminatedWorkerNeverReused ==
    /\ [](\A w \in DOMAIN worker :
             WatchdogKilled(w) => \A i \in DOMAIN threads : threads[i] # w)
    /\ [][ /\ \A t \in DispatchedNow : ~WatchdogKilled(task'[t].thread)
           /\ \A i \in DOMAIN threads :
                 (threads[i] = 0 /\ threads'[i] # 0) =>
                     /\ threads'[i] \notin DOMAIN worker
                     /\ worker'[threads'[i]].state = "alive"
         ]_vars

\* C16 witness: the watchdog of a task fired, and a later task was
\* dispatched to a new worker created in the same slot.
C16_Witness ==
    \E t, u \in DOMAIN task :
        /\ task[t].timer = "fired"
        /\ task[u].thread > task[t].thread
        /\ worker[task[u].thread].index = worker[task[t].thread].index
        /\ threads[worker[task[u].thread].index] = task[u].thread
        /\ Settled(u)

-----------------------------------------------------------------------------
\* C18: a dispatch attempt made while the queue is empty or while every slot
\* holds a busy thread changes nothing: _triggerWork returns the state it
\* was called in (queue, slot table, workers, timers, tasks).
C18_DispatchAttemptNoOp ==
    (tasks = <<>> \/ AllSlotsBusy) =>
        \A load \in LoadOutcomes : TriggerWork(State, load) = State

\* C18 witness: pool size 1, its thread busy, and two tasks submitted
\* meanwhile are both still in the queue.
C18_Witness ==
    /\ poolSize = 1
    /\ AllSlotsBusy
    /\ tasks = <<2, 3>>
    /\ task[2].thread = 0 /\ task[3].thread = 0
    /\ Len(worker) = 1

-----------------------------------------------------------------------------
\* C19: the executor never comes to rest (no worker event to deliver, no
\* module running, no watchdog armed) with a task in the queue and a slot
\* that is empty or holds an idle thread.
C19_NoRestWithQueueAndFreeSlot ==
    (~halted /\ tasks # <<>> /\ SomeSlotFree) => CanProgress

-----------------------------------------------------------------------------
\* C20: a watchdog that is still armed belongs to the task its thread is
\* running and that task has no outcome yet; a watchdog cleared by the
\* completion of its task stays cleared; and a slot is emptied only by the
\* firing of the watchdog of the task its thread is running.
C20_CancelledWatchdogHasNoEffect ==
    /\ [](\A t \in DOMAIN task :
             task[t].timer = "armed" =>
                 /\ worker[task[t].thread].handler = t
                 /\ Calls(t) = <<>>)
    /\ [][ /\ \A t \in DOMAIN task :
                 task[t].timer = "cleared" => task'[t].timer = "cleared"
           /\ \A i \in DOMAIN threads :
                 (threads[i] # 0 /\ threads'[i] = 0) =>
                     LET t == worker[threads[i]].handler
                     IN  /\ t # 0
                         /\ task[t].timer = "armed"
                         /\ task'[t].timer = "fired"
         ]_vars

\* C20 witness: a task completed and its watchdog was cleared, a later task
\* ran on the same worker and completed as well, and the worker is alive
\* and still in its slot.
C20_Witness ==
    \E t, u \in DOMAIN task :
        /\ t < u
        /\ task[t].thread = task[u].thread
        /\ task[t].timer = "cleared" /\ task[u].timer = "cleared"
        /\ Calls(t) # <<>> /\ Calls(t)[1].fn = "resolve"
        /\ Calls(u) # <<>> /\ Calls(u)[1].fn = "resolve"
        /\ worker[task[t].thread].state = "alive"
        /\ threads[worker[task[t].thread].index] = task[t].thread

-----------------------------------------------------------------------------
\* the controller call made in this step was an exec or a stats for a name
\* that is not in the registry
UnregisteredRequest ==
    /\ reply' # reply
    /\ reply'.controller \in {"exec", "stats"}
    /\ registry[reply'.name] = 0

\* C17: exec and stats for a name that is not registered fail with `cannot
\* find module` (status 500) and change nothing: no task is added or
\* queued, no slot, worker or cache entry changes, no wrapper call is made
\* (so no statistics change) and the registry stays as it is; and every
\* task submitted is a task of the module object registered under its name
\* at that moment.
C17_UnregisteredModuleNotExecuted ==
    [][ /\ UnregisteredRequest =>
              /\ reply'.status = 500
              /\ reply'.body = "cannot find module"
              /\ UNCHANGED <<execVars, map, registry, nmodules>>
        /\ \A t \in DOMAIN task' :
              t \notin DOMAIN task =>
                  /\ registry[task'[t].wasmFile] # 0
                  /\ task'[t].module = registry[task'[t].wasmFile]
      ]_vars

\* C17 witness: sum is registered and has run once; an exec of a name that
\* was never registered has just failed.
C17_Witness ==
    /\ registry["sum"] # 0
    /\ ModuleCounter(registry["sum"]) = 1
    /\ registry["trap"] = 0
    /\ reply = Reply("exec", "trap", 500, "cannot find module", 0, 0)
    /\ Len(task) = 1

-----------------------------------------------------------------------------
\* C21: a dispatch marks the thread busy and arms the watchdog before it
\* asks the cache for the bytes, and posts to the worker only once the bytes
\* are there: a task whose load did not come back has its thread marked
\* busy (until a handler frees it) and its watchdog armed, every message
\* posted to a worker carries the bytes the cache holds, and a task whose
\* load did not come back can only end in the timeout fault, which is on
\* its way while the process runs.
C21_BusyAndArmedBeforeLoad ==
    /\ \A t \in DOMAIN task :
          task[t].loadFailed =>
              /\ task[t].thread # 0
              /\ task[t].timer # "none"
              /\ task[t].timer = "armed" => worker[task[t].thread].busy
              /\ \A i \in DOMAIN Calls(t) : IsTimeoutFault(Calls(t)[i])
              /\ (~halted /\ ~Settled(t)) =>
                     \/ task[t].timer = "armed"
                     \/ HasEvent(task[t].thread, "exit")
    /\ \A w \in DOMAIN worker :
          \A k \in DOMAIN worker[w].inbox :
              \E f \in Files :
                  /\ map[f] # NoEntry
                  /\ map[f].value = worker[w].inbox[k].wasmBuffer

-----------------------------------------------------------------------------
\* the get calls made for a key
GetsFor(key) == {i \in DOMAIN gets : gets[i].key = key}

\* the get calls for a key all returned, each started after the one before
\* it had returned and less than ttl after it
CloseTogether(key) ==
    /\ \A i \in GetsFor(key) : gets[i].phase = "returned"
    /\ \A i, j \in GetsFor(key) :
          (i < j /\ ~ \E k \in GetsFor(key) : i < k /\ k < j) =>
              /\ StartedAfterReturn(i, j)
              /\ gets[j].start - gets[i].at < CACHE_TTL_MS

LastGet(key) == CHOOSE i \in GetsFor(key) : \A j \in GetsFor(key) : j <= i

\* C22: sliding TTL.  While the accesses of a key are always less than ttl
\* apart (up to now), its entry is in the cache with the timestamp of the
\* last access, whatever sweeps have run and however long ago it was
\* loaded, and only the first of the get calls invoked the supplier.
C22_SlidingTtl ==
    \A key \in CacheKeys :
        ( /\ GetsFor(key) # {}
          /\ CloseTogether(key)
          /\ now - gets[LastGet(key)].at < CACHE_TTL_MS )
        => /\ map[key] # NoEntry
           /\ map[key].timestamp = gets[LastGet(key)].at
           /\ \A i, j \in GetsFor(key) : i < j => ~gets[j].supplied

\* C22 witness: an entry loaded at half a ttl and read at ttl and at one and
\* a half ttl is still cached after the sweep at twice the ttl.
C22_Witness ==
    /\ Len(gets) = 3
    /\ GetsFor("sum") = {1, 2, 3}
    /\ CloseTogether("sum")
    /\ gets[1].supplied /\ gets[1].at = ClockStep
    /\ gets[3].at = 3 * ClockStep
    /\ now = 2 * CACHE_TTL_MS
    /\ nextSweep = 3 * CACHE_TTL_MS
    /\ map["sum"].timestamp = 3 * ClockStep

-----------------------------------------------------------------------------
\* C23: a sweep at time now removes exactly the entries with
\* now - timestamp >= ttl and leaves every other entry as it was.
C23_SweepRemovesIdleForTtl ==
    [][ nextSweep' # nextSweep =>
            \A key \in DOMAIN map :
                map'[key] = IF /\ map[key] # NoEntry
                               /\ now - map[key].timestamp >= CACHE_TTL_MS
                            THEN NoEntry
                            ELSE map[key]
      ]_vars

-----------------------------------------------------------------------------
(* Where a task is *)

InQueue(t) == t \in Waiting

\* dispatched by _work and not yet fulfilled
InFlight(t) == task[t].thread # 0 /\ ~Settled(t)

CountInQueue(t) == Cardinality({k \in DOMAIN tasks : tasks[k] = t})

WatchdogFirings == Cardinality({t \in DOMAIN task : task[t].timer = "fired"})

\* C27: tasks are conserved.  Every submitted task is in exactly one of
\* three states: once in the queue (with no thread and no outcome),
\* dispatched to a thread and not fulfilled, or fulfilled (and it was
\* dispatched); every execute call adds its task whatever the length of the
\* queue, and no step removes a task.
C27_TasksConserved ==
    /\ [](\A t \in DOMAIN task :
             \/ CountInQueue(t) = 1 /\ task[t].thread = 0 /\ ~Settled(t)
             \/ CountInQueue(t) = 0 /\ InFlight(t)
             \/ CountInQueue(t) = 0 /\ task[t].thread # 0 /\ Settled(t))
    /\ [](\A k \in DOMAIN tasks : tasks[k] \in DOMAIN task)
    /\ [][ /\ Len(task') >= Len(task)
           /\ \A t \in DOMAIN task :
                 /\ task'[t].wasmFile = task[t].wasmFile
                 /\ task'[t].params = task[t].params
                 /\ Settled(t) => task'[t].calls # <<>>
         ]_vars

\* C27 witness: pool size 1 and the queue two long behind a running task:
\* longer than the pool.
C27_Witness ==
    /\ poolSize = 1
    /\ Len(tasks) = MaxTasks - 1
    /\ Len(tasks) > poolSize
    /\ InFlight(1)
    /\ \A t \in DOMAIN task : t > 1 => InQueue(t)

-----------------------------------------------------------------------------
\* C28: the tasks dispatched and not yet fulfilled never outnumber the pool.
C28_InFlightAtMostPoolSize ==
    Cardinality({t \in DOMAIN task : InFlight(t)}) <= poolSize

-----------------------------------------------------------------------------
\* C29: a task is rejected with the timeout fault only if its own watchdog
\* has fired, and with `exit code <n>` only if it has not.
C29_TimeoutFaultOnlyByOwnWatchdog ==
    \A t \in DOMAIN task :
        \A i \in DOMAIN Calls(t) :
            /\ IsTimeoutFault(Calls(t)[i]) => task[t].timer = "fired"
            /\ (Calls(t)[i].fn = "reject" /\ Calls(t)[i].arg.kind = "exitcode")
                   => task[t].timer # "fired" /\ Calls(t)[i].arg.v # 0

\* C29 witness: pool size 2; the watchdog of one task fired and the task was
\* rejected with the timeout fault; the worker of the other task died and
\* that task was rejected with exit code 1.
C29_Witness ==
    \E t, u \in DOMAIN task :
        /\ task[t].timer = "fired"
        /\ Calls(t) = <<[fn |-> "reject", arg |-> Val("timeout", EXECUTION_TIMEOUT_MS), time |-> 0]>>
        /\ task[u].timer = "cleared"
        /\ task[u].thread # task[t].thread
        /\ Calls(u) = <<[fn |-> "reject", arg |-> Val("exitcode", 1), time |-> 0]>>

-----------------------------------------------------------------------------
\* C30: a worker is created only in a step that dispatches a task to it,
\* one at a time, in a slot that was empty; so the workers ever created
\* number at most poolSize plus the watchdog firings.
C30_WorkersCreatedOnlyForEmptySlot ==
    /\ [](Len(worker) <= poolSize + WatchdogFirings)
    /\ [][ Len(worker') # Len(worker) =>
               /\ Len(worker') = Len(worker) + 1
               /\ \E i \in DOMAIN threads :
                     threads[i] = 0 /\ threads'[i] = Len(worker')
               /\ \E t \in DispatchedNow : task'[t].thread = Len(worker')
         ]_vars

\* C30 witness: pool size 1; the one worker ever created resolved two tasks
\* and was running the third when its watchdog fired.
C30_Witness ==
    /\ poolSize = 1
    /\ Len(task) = 3
    /\ Len(worker) = 1
    /\ Calls(1) # <<>> /\ Calls(1)[1].fn = "resolve"
    /\ Calls(2) # <<>> /\ Calls(2)[1].fn = "resolve"
    /\ task[3].timer = "fired"

-----------------------------------------------------------------------------
(* The pooled executor of src/index.js *)

\* the workers created and not terminated
LiveWorkers == {w \in DOMAIN worker : worker[w].state \in {"starting", "alive"}}

\* task t was handed to a thread and nothing has settled it
SharesThread(t, u) ==
    /\ t # u
    /\ task[t].thread # 0
    /\ task[t].thread = task[u].thread

\* C24: no thread is handed to two tasks.  Two tasks that were given the
\* same thread were given it one after the other (the first was settled
\* when the second took it over), the handlers of a thread with a task in
\* flight are those of that task, and a task is resolved with the result of
\* its own module and parameters.
C24_NoThreadHandedToTwoTasks ==
    /\ \A t, u \in DOMAIN task :
           SharesThread(t, u) => Settled(t) \/ Settled(u)
    /\ \A t \in DOMAIN task :
           InFlight(t) => worker[task[t].thread].handler = t
    /\ \A t \in DOMAIN task :
           \A i \in DOMAIN Calls(t) :
               Calls(t)[i].fn = "resolve" => Calls(t)[i].arg = OwnResult(t)

-----------------------------------------------------------------------------
\* C25: the workers created and not terminated never outnumber the pool.
C25_LiveWorkersAtMostPoolSize ==
    Cardinality(LiveWorkers) <= poolSize

-----------------------------------------------------------------------------
(* The worker-per-task executor of src/index.js *)

\* the exit event of worker w has been handled
PtExited(w) == worker[w].state = "dead" /\ worker[w].events = <<>>

PtRunning == {w \in DOMAIN worker : ~PtExited(w)}

\* C26: this.busy stays within 0 .. total and is the number of workers
\* created whose exit has not been handled; it goes up by one with a worker
\* created and down by one with an exit handled, and in no other way, and a
\* watchdog that fires when its worker has exited changes neither the
\* counter nor any worker.
C26_BusyCountsRunningWorkers ==
    /\ [](busy \in 0 .. poolSize /\ busy = Cardinality(PtRunning))
    /\ [][ /\ busy' = busy + (Len(worker') - Len(worker))
                        - Cardinality(PtRunning \ PtRunning')
           /\ \A t \in DOMAIN task :
                  (/\ task[t].timer = "armed"
                   /\ task'[t].timer = "fired"
                   /\ worker[task[t].thread].state = "dead")
                  => busy' = busy /\ worker' = worker
         ]_vars

\* C26 witness: three workers have come and gone and the counter is back
\* at 0: one posted its result and exited before its watchdog fired, one
\* raised an error, one was terminated by the watchdog while running.
C26_Witness ==
    /\ busy = 0
    /\ PtRunning = {}
    /\ \E t, u, v \in DOMAIN task :
          /\ task[t].timer = "fired"
          /\ Len(Calls(t)) = 1 /\ Calls(t)[1].fn = "resolve"
          /\ Calls(u) # <<>> /\ Calls(u)[1].arg.kind = "workererror"
          /\ task[v].timer = "fired"
          /\ Len(Calls(v)) = 1 /\ Calls(v)[1].arg = Val("exitcode", 1)

-----------------------------------------------------------------------------
(* The answers of the HTTP server *)

\* the step settles task t with a call of its reject wrapper
FaultSettles(t) ==
    /\ task[t].calls = <<>>
    /\ task'[t].calls # <<>>
    /\ task'[t].calls[1].fn = "reject"

\* the answer tells of an exception thrown by one of the controllers
ControllerThrew(r) ==
    \/ r.controller \in {"exec", "stats"} /\ r.body = "cannot find module"
    \/ r.controller = "register" /\ r.body = "module not found"

\* C31: a request of exec whose execution ends in a fault is answered with
\* status 200 and the body `undefined`; an answer with status 500 comes
\* from a controller that threw or rejected, and one with status 400 from a
\* request that names none of the controllers.
C31_FaultAnsweredWith200 ==
    /\ [][\A t \in DOMAIN task :
              FaultSettles(t) =>
                  reply' = Reply("exec", task[t].wasmFile, 200, "undefined", 0, 0)
         ]_vars
    /\ [](reply.status = 500 => ControllerThrew(reply))
    /\ [](reply.status = 400 =>
              reply.controller \notin {"exec", "register", "stats"})

-----------------------------------------------------------------------------
(* The registry *)

\* the step is a call of Platform.register (one that changes something)
RegisterStep ==
    /\ reply'.controller = "register"
    /\ reply' # reply \/ nmodules' # nmodules

\* C32: register for a name whose .wasm file is not there answers `module
\* not found` and changes nothing in the registry: an earlier record of
\* that name stays, and its statistics with it; register for a name whose
\* file is there answers with success and puts a new record under it.
C32_RegisterMissingFileLeavesRegistry ==
    [][RegisterStep =>
          IF FileExists(reply'.name)
          THEN /\ reply'.status = 200
               /\ reply'.body = "registered successfully"
               /\ registry'[reply'.name] = nmodules'
               /\ nmodules' = nmodules + 1
          ELSE /\ reply'.status = 500
               /\ reply'.body = "module not found"
               /\ registry' = registry
               /\ nmodules' = nmodules
               /\ task' = task
      ]_vars

\* C32 witness: sum was registered and executed once, its file was then
\* deleted, and a second register of sum was answered `module not found`;
\* the record with one request counted is still there.
C32_Witness ==
    /\ "sum" \in removed
    /\ reply = Reply("register", "sum", 500, "module not found", 0, 0)
    /\ registry["sum"] # 0
    /\ ModuleCounter(registry["sum"]) = 1

-----------------------------------------------------------------------------
\* the step calls a wrapper of a task whose module object is no longer the
\* one registered under its name
StaleCompletion(t) ==
    /\ Len(task'[t].calls) > Len(task[t].calls)
    /\ task[t].module # registry[task[t].wasmFile]

\* C33: a register of a name already registered puts a new record with
\* counter 0 and time 0 under the name, and the completion of an execution
\* that was started under the earlier record leaves the counter and the
\* time of the new record as they are.
C33_ReRegistrationResetsStatistics ==
    /\ [][\A name \in ModuleNames :
              registry'[name] # registry[name] =>
                  /\ ModuleCounter(registry'[name]) = 0
                  /\ ModuleTime(registry'[name]) = 0
                  /\ (ModuleCounter(registry[name]))' = 0
         ]_vars
    /\ [][\A t \in DOMAIN task :
              StaleCompletion(t) =>
                  LET m == registry[task[t].wasmFile]
                  IN  /\ registry' = registry
                      /\ (ModuleCounter(m))' = ModuleCounter(m)
                      /\ (ModuleTime(m))' = ModuleTime(m)
         ]_vars

\* C33 witness: sum was registered, executed, and registered again; the
\* execution is counted by the first record and the record now under the
\* name reports no request.
C33_Witness ==
    /\ registry["sum"] = 2
    /\ task # <<>>
    /\ task[1].module = 1
    /\ ModuleCounter(1) = 1
    /\ ModuleCounter(2) = 0
    /\ reply = Reply("stats", "sum", 200, "statistics", 0, 0)

-----------------------------------------------------------------------------
\* the gets made for the key of get j before it
EarlierGets(j) == {i \in 1 .. (j - 1) : gets[i].key = gets[j].key}

\* C34: a get whose supplier fails ends with the error and leaves the map
\* as it is; an entry in the map was stored by a get whose supplier
\* returned; and a get made for a key for which every earlier get failed
\* calls the supplier again.
C34_FailedLoadNotCached ==
    /\ [][\A i \in DOMAIN gets :
              (gets[i].phase = "loading" /\ gets'[i].phase = "failed")
                  => map' = map
         ]_vars
    /\ [](\A k \in CacheKeys :
              map[k] # NoEntry =>
                  /\ map[k].value = ReadFile(k)
                  /\ \E i \in DOMAIN gets :
                        /\ gets[i].key = k
                        /\ gets[i].supplied
                        /\ gets[i].phase = "returned")
    /\ [](\A j \in DOMAIN gets :
              (\A i \in EarlierGets(j) : gets[i].phase = "failed")
                  => gets[j].supplied)

\* C34 witness: the supplier of the first get for sum failed; the second
\* get for sum, made afterwards, called the supplier again and stored what
\* it returned.
C34_Witness ==
    /\ Len(gets) >= 2
    /\ gets[1].key = "sum" /\ gets[1].phase = "failed"
    /\ gets[2].key = "sum" /\ gets[2].supplied /\ gets[2].phase = "returned"
    /\ gets[2].start > gets[1].at
    /\ map["sum"] # NoEntry

=============================================================================
